---- MODULE Spec2Model ----
(***************************************************************************)
(* File handles and file tables of kern/syscall/file.c (OS/161, SOL2).     *)
(*                                                                         *)
(* An openfile is a reference-counted, lock-protected record wrapping one  *)
(* vnode; a filetable is a per-process array of OPEN_MAX openfile          *)
(* pointers.  The module models the heap of openfiles, the VFS objects     *)
(* behind them, and every process's table, and translates each function    *)
(* of file.c into an operator on that state.                               *)
(*                                                                         *)
(* Spec runs every function of file.c as one step (a call that is not      *)
(* interleaved with another call).  SpecConc runs the calls of the         *)
(* processes' threads interleaved, a step being a lock_acquire with the    *)
(* code under the lock, a lock_release, a kfree or a write to a slot.      *)
(***************************************************************************)
EXTENDS Integers, FiniteSets, Sequences, TLC

\* ------------------------------------------------------------------ bounds
\* Size of a file table (the kernel's OPEN_MAX, scaled down).
OPEN_MAX == 4
\* Number of processes.
NPROC == 2
\* Number of VFS objects that can be open at a time; also the size of the
\* openfile heap.
MaxOpens == 4
\* Number of calls into file.c in one run.
MaxCalls == 3

\* --------------------------------------------------------------- constants
NULL == 0
O_RDONLY == 0
O_WRONLY == 1
O_RDWR == 2
O_ACCMODE == 3
O_CREAT == 4

SUCCESS == "0"
ENOMEM == "ENOMEM"
EMFILE == "EMFILE"
EBADF == "EBADF"
\* whatever vfs_open reports when it fails
EVFS == "EVFS"
\* what the VFS reports when the close of a VFS object fails
EIO == "EIO"

Proc == 1..NPROC
Fds == 0..(OPEN_MAX - 1)
Handle == 1..MaxOpens
Vnode == 1..MaxOpens
\* the value of an int the code never assigned (*retfd on a failed open)
NoFd == 0 - 1
\* descriptors a caller may pass: in range, and one out of range on each side
FdArgs == (0 - 1)..OPEN_MAX
\* the flags callers pass to file_open
OpenFlags == {O_RDWR, O_WRONLY + O_CREAT}
\* where an allocation inside a call may fail
OpenFails == {"none", "vfs_open", "kmalloc", "lock_create"}

VARIABLES
  files,     \* files[p]: curproc->files of process p (valid = not NULL)
  heap,      \* heap[h]: the openfile at address h
  vnodes,    \* vnodes[v]: whether the VFS object v is open
  fault,     \* "none", or how the kernel stopped: a failed KASSERT, a use
             \* of a freed openfile, a vfs_close of a VFS object not open
  last,      \* the call that returned last, its arguments and its result
  ncalls,    \* number of calls made so far
  thread     \* thread[p]: where the thread of process p is in its call, and
             \* the local variables of that call (SpecConc)

vars == <<files, heap, vnodes, fault, last, ncalls, thread>>

\* ------------------------------------------------------------------- state
\* struct filetable: openfile *handles[OPEN_MAX]
NullTable == [fd \in Fds |-> NULL]
NoFiles == [valid |-> FALSE, handles |-> NullTable]

\* memory of the heap that holds no openfile: never handed out by kmalloc, or
\* given back by kfree
Free ==
  [st |-> "free", vn |-> NULL, offset |-> 0, mode |-> 0, refs |-> 0,
   holder |-> 0]

\* A thread that is in no call of file.c.  op, res: the call it made last
\* and what that returned; fd, file, cfile, copy: the locals of a call (fd of
\* file_close and the loops, file of filetable_dup2file, file of file_close
\* and file_doclose, *copy of filetable_copy).
Idle ==
  [pc |-> "idle", op |-> "none", res |-> SUCCESS, fd |-> NoFd, file |-> NULL,
   cfile |-> NULL, copy |-> NoFiles]

\* The state the functions of file.c act on, as one value.
State == [files |-> files, heap |-> heap, vnodes |-> vnodes, fault |-> fault]

\* number of slots of table t that hold h
SlotCount(t, h) == Cardinality({fd \in Fds : t[fd] = h})
\* number of slots, over all processes' tables, that hold h
RefSlots(fs, h) ==
  LET RECURSIVE Sum(_)
      Sum(P) == IF P = {} THEN 0
                ELSE LET p == CHOOSE x \in P : TRUE
                     IN  SlotCount(fs[p].handles, h) + Sum(P \ {p})
  IN  Sum(Proc)

\* ------------------------------------------------- collaborators and memory
\* vfs_open hands out a VFS object that is not open: the first such one.
FreshVnode(s) ==
  CHOOSE v \in Vnode :
    /\ ~s.vnodes[v]
    /\ \A w \in Vnode : w < v => s.vnodes[w]

vfs_open(s, v) == [s EXCEPT !.vnodes[v] = TRUE]

\* vfs_close gives up the VFS object; closing one that is not open is a
\* reference-count underflow in the VFS.
vfs_close(s, v) ==
  IF s.vnodes[v] THEN [s EXCEPT !.vnodes[v] = FALSE]
  ELSE [s EXCEPT !.fault = "vfs_double_close"]

\* The status of the VFS's close of the VFS object v ("close(file object) ->
\* status"; best effort: the object is given up whatever the status).  Which
\* closes fail is up to the VFS; here those of the VFS objects of even number
\* do, so that closes of either outcome occur.
vfs_close_result(v) == IF v % 2 = 0 THEN EIO ELSE SUCCESS

\* kmalloc(sizeof(openfile)): the first free address of the heap.  Which
\* address it is does not matter to file.c, which compares openfile pointers
\* with NULL only.
kmalloc(s) ==
  CHOOSE h \in Handle :
    /\ s.heap[h].st = "free"
    /\ \A g \in Handle : g < h => s.heap[g].st # "free"

\* kfree of an openfile
kfree(s, h) == [s EXCEPT !.heap[h] = Free]

\* lock_acquire / lock_release by the thread of process p, as seen by a call
\* that no other call interleaves with.
lock_acquire(s, h, p) == [s EXCEPT !.heap[h].holder = p]

lock_release(s, h) == [s EXCEPT !.heap[h].holder = 0]

\* a failed KASSERT stops the kernel
panic(s) == [s EXCEPT !.fault = "panic"]

\* a read or write through a pointer to freed memory
use_after_free(s) == [s EXCEPT !.fault = "use_after_free"]

\* flags & O_ACCMODE, O_ACCMODE being the two low bits
AccMode(flags) == flags % (O_ACCMODE + 1)

\* ------------------------------------------------------- filetable functions
\* filetable_placefile: the for loop from slot i on.
RECURSIVE placefile_from(_, _, _, _)
placefile_from(s, p, file, i) ==
  IF i >= OPEN_MAX THEN [st |-> s, res |-> EMFILE, fd |-> NoFd]
  ELSE IF s.files[p].handles[i] = NULL
       THEN [st  |-> [s EXCEPT !.files[p].handles[i] = file],
             res |-> SUCCESS,
             fd  |-> i]
       ELSE placefile_from(s, p, file, i + 1)

\* filetable_placefile with the scan started at slot 1.
filetable_placefile_from_one(s, p, file) == placefile_from(s, p, file, 1)

filetable_placefile(s, p, file) == placefile_from(s, p, file, 0)

filetable_findfile(s, p, fd) ==
  IF fd < 0 \/ fd >= OPEN_MAX THEN [res |-> EBADF, file |-> NULL]
  ELSE IF s.files[p].handles[fd] = NULL THEN [res |-> EBADF, file |-> NULL]
       ELSE [res |-> SUCCESS, file |-> s.files[p].handles[fd]]

\* -------------------------------------------------------- openfile functions
\* file_open without the vfs_close of its last failure path.
file_open_no_unwind(s, p, flags, fail) ==
  IF fail = "vfs_open"
  THEN [st |-> s, res |-> EVFS, fd |-> NoFd, file |-> NULL]
  ELSE
    LET vn == FreshVnode(s)
        s1 == vfs_open(s, vn)
    IN  IF fail = "kmalloc"
        THEN [st |-> vfs_close(s1, vn), res |-> ENOMEM, fd |-> NoFd,
              file |-> NULL]
        ELSE
          LET file == kmalloc(s1)
          IN  IF fail = "lock_create"
              THEN [st  |-> kfree(vfs_close(s1, vn), file),
                    res |-> ENOMEM, fd |-> NoFd, file |-> file]
              ELSE
                LET s2 == [s1 EXCEPT !.heap[file] =
                             [st |-> "live", vn |-> vn, offset |-> 0,
                              mode |-> AccMode(flags), refs |-> 1,
                              holder |-> 0]]
                    r  == filetable_placefile(s2, p, file)
                IN  IF r.res # SUCCESS
                    THEN [st  |-> kfree(s2, file),
                          res |-> r.res, fd |-> NoFd, file |-> file]
                    ELSE [st |-> r.st, res |-> SUCCESS, fd |-> r.fd,
                          file |-> file]

file_open(s, p, flags, fail) ==
  IF fail = "vfs_open"
  THEN [st |-> s, res |-> EVFS, fd |-> NoFd, file |-> NULL]
  ELSE
    LET vn == FreshVnode(s)
        s1 == vfs_open(s, vn)
    IN  IF fail = "kmalloc"
        THEN [st |-> vfs_close(s1, vn), res |-> ENOMEM, fd |-> NoFd,
              file |-> NULL]
        ELSE
          LET file == kmalloc(s1)
          IN  IF fail = "lock_create"
              THEN [st  |-> kfree(vfs_close(s1, vn), file),
                    res |-> ENOMEM, fd |-> NoFd, file |-> file]
              ELSE
                LET s2 == [s1 EXCEPT !.heap[file] =
                             [st |-> "live", vn |-> vn, offset |-> 0,
                              mode |-> AccMode(flags), refs |-> 1,
                              holder |-> 0]]
                    r  == filetable_placefile(s2, p, file)
                IN  IF s2.heap[file].mode \notin {O_RDONLY, O_WRONLY, O_RDWR}
                    THEN [st |-> panic(s2), res |-> SUCCESS, fd |-> NoFd,
                          file |-> file]
                    ELSE IF r.res # SUCCESS
                         THEN [st  |-> vfs_close(kfree(s2, file), vn),
                               res |-> r.res, fd |-> NoFd, file |-> file]
                         ELSE [st |-> r.st, res |-> SUCCESS, fd |-> r.fd,
                               file |-> file]

\* file_doclose that takes refs >= 1 for the last close.
file_doclose_early(s, p, file) ==
  IF s.heap[file].st # "live"
  THEN [st |-> use_after_free(s), res |-> SUCCESS]
  ELSE [st  |-> kfree(vfs_close(s, s.heap[file].vn), file),
        res |-> SUCCESS]

\* file_doclose that forgets file->refs-- when the close is not the last.
file_doclose_no_decrement(s, p, file) ==
  IF s.heap[file].st # "live"
  THEN [st |-> use_after_free(s), res |-> SUCCESS]
  ELSE IF s.heap[file].refs = 1
       THEN [st  |-> kfree(vfs_close(s, s.heap[file].vn), file),
             res |-> SUCCESS]
       ELSE [st |-> s, res |-> SUCCESS]

\* file_doclose, called by the thread of process p
file_doclose(s, p, file) ==
  IF s.heap[file].st # "live"
  THEN [st |-> use_after_free(s), res |-> SUCCESS]
  ELSE
    LET s1 == lock_acquire(s, file, p)
    IN  IF s1.heap[file].refs = 1
        THEN [st  |-> kfree(lock_release(vfs_close(s1, s1.heap[file].vn),
                                         file),
                            file),
              res |-> SUCCESS]
        ELSE IF s1.heap[file].refs > 1
             THEN [st  |-> lock_release(
                             [s1 EXCEPT !.heap[file].refs = @ - 1], file),
                   res |-> SUCCESS]
             ELSE [st |-> panic(s1), res |-> SUCCESS]

\* file_close that leaves the slot as it was.
file_close_keeps_slot(s, p, fd) ==
  LET f == filetable_findfile(s, p, fd)
  IN  IF f.res # SUCCESS THEN [st |-> s, res |-> f.res, file |-> f.file]
      ELSE
        LET d == file_doclose(s, p, f.file)
        IN  [st |-> d.st, res |-> d.res, file |-> f.file]

\* what file_close does with the result d of file_doclose, emptying the slot
\* whatever d is.
file_close_result_clears(s, p, fd, file, d) ==
  [st  |-> [d.st EXCEPT !.files[p].handles[fd] = NULL],
   res |-> d.res, file |-> file]

\* file_close from the return of file_doclose on: d is what file_doclose
\* returned (res) and the state it left (st).
file_close_result(s, p, fd, file, d) ==
  IF d.res # SUCCESS \/ d.st.fault # "none"
  THEN [st |-> d.st, res |-> d.res, file |-> file]
  ELSE [st  |-> [d.st EXCEPT !.files[p].handles[fd] = NULL],
        res |-> SUCCESS, file |-> file]

\* file_close that returns 0 when filetable_findfile fails.
file_close_drops_ebadf(s, p, fd) ==
  LET f == filetable_findfile(s, p, fd)
  IN  IF f.res # SUCCESS THEN [st |-> s, res |-> SUCCESS, file |-> f.file]
      ELSE file_close_result(s, p, fd, f.file, file_doclose(s, p, f.file))

file_close(s, p, fd) ==
  LET f == filetable_findfile(s, p, fd)
  IN  IF f.res # SUCCESS THEN [st |-> s, res |-> f.res, file |-> f.file]
      ELSE file_close_result(s, p, fd, f.file, file_doclose(s, p, f.file))

\* filetable_init that opens stdout with the flags of stdin.
filetable_init_stdout_rdonly(s, p, failTable, fails) ==
  IF s.files[p].valid THEN [st |-> panic(s), res |-> SUCCESS]
  ELSE IF failTable THEN [st |-> s, res |-> ENOMEM]
  ELSE
    LET s0 == [s EXCEPT !.files[p] = [valid |-> TRUE, handles |-> NullTable]]
        r1 == file_open(s0, p, O_RDONLY, fails[1])
        r2 == file_open(r1.st, p, O_RDONLY, fails[2])
        r3 == file_open(r2.st, p, O_WRONLY, fails[3])
    IN  IF r1.res # SUCCESS THEN [st |-> r1.st, res |-> r1.res]
        ELSE IF r2.res # SUCCESS THEN [st |-> r2.st, res |-> r2.res]
        ELSE IF r3.res # SUCCESS THEN [st |-> r3.st, res |-> r3.res]
        ELSE [st |-> r3.st, res |-> SUCCESS]

\* filetable_init that looks at the result of the last file_open only.
filetable_init_goes_on(s, p, failTable, fails) ==
  IF s.files[p].valid THEN [st |-> panic(s), res |-> SUCCESS]
  ELSE IF failTable THEN [st |-> s, res |-> ENOMEM]
  ELSE
    LET s0 == [s EXCEPT !.files[p] = [valid |-> TRUE, handles |-> NullTable]]
        r1 == file_open(s0, p, O_RDONLY, fails[1])
        r2 == file_open(r1.st, p, O_WRONLY, fails[2])
        r3 == file_open(r2.st, p, O_WRONLY, fails[3])
    IN  [st |-> r3.st, res |-> r3.res]

\* filetable_init.  failTable: the kmalloc of the table fails; fails[k]: where
\* the k-th file_open fails ("none": it does not).
filetable_init(s, p, failTable, fails) ==
  IF s.files[p].valid THEN [st |-> panic(s), res |-> SUCCESS]
  ELSE IF failTable THEN [st |-> s, res |-> ENOMEM]
  ELSE
    LET s0 == [s EXCEPT !.files[p] = [valid |-> TRUE, handles |-> NullTable]]
        r1 == file_open(s0, p, O_RDONLY, fails[1])
        r2 == file_open(r1.st, p, O_WRONLY, fails[2])
        r3 == file_open(r2.st, p, O_WRONLY, fails[3])
    IN  IF r1.res # SUCCESS THEN [st |-> r1.st, res |-> r1.res]
        ELSE IF r2.res # SUCCESS THEN [st |-> r2.st, res |-> r2.res]
        ELSE IF r3.res # SUCCESS THEN [st |-> r3.st, res |-> r3.res]
        ELSE [st |-> r3.st, res |-> SUCCESS]

\* the loop of filetable_copy without refs++.
RECURSIVE copy_from_no_incref(_, _, _, _)
copy_from_no_incref(s, p, copy, fd) ==
  IF fd >= OPEN_MAX THEN [st |-> s, copy |-> copy]
  ELSE copy_from_no_incref(
         s, p, [copy EXCEPT ![fd] = s.files[p].handles[fd]], fd + 1)

\* filetable_copy: the for loop from slot fd on; copy is the new table so far.
RECURSIVE copy_from(_, _, _, _)
copy_from(s, p, copy, fd) ==
  IF fd >= OPEN_MAX \/ s.fault # "none" THEN [st |-> s, copy |-> copy]
  ELSE
    LET h == s.files[p].handles[fd]
    IN  IF h # NULL
        THEN IF s.heap[h].st # "live"
             THEN [st |-> use_after_free(s), copy |-> copy]
             ELSE copy_from(
                    lock_release(
                      [lock_acquire(s, h, p) EXCEPT !.heap[h].refs = @ + 1],
                      h),
                    p, [copy EXCEPT ![fd] = h], fd + 1)
        ELSE copy_from(s, p, [copy EXCEPT ![fd] = NULL], fd + 1)

\* filetable_copy by process p.  copy is *copy: a table (valid) or NULL.
filetable_copy(s, p, fail) ==
  IF ~s.files[p].valid THEN [st |-> s, res |-> SUCCESS, copy |-> NoFiles]
  ELSE IF fail THEN [st |-> s, res |-> ENOMEM, copy |-> NoFiles]
  ELSE
    LET r == copy_from(s, p, NullTable, 0)
    IN  [st   |-> r.st,
         res  |-> SUCCESS,
         copy |-> [valid |-> TRUE, handles |-> r.copy]]

\* filetable_destroy: the for loop from slot fd on.
RECURSIVE destroy_from(_, _, _)
destroy_from(s, p, fd) ==
  IF fd >= OPEN_MAX \/ s.fault # "none" THEN s
  ELSE IF s.files[p].handles[fd] # NULL
       THEN LET d == file_doclose(s, p, s.files[p].handles[fd])
            IN  IF d.res # SUCCESS THEN panic(d.st)
                ELSE destroy_from(d.st, p, fd + 1)
       ELSE destroy_from(s, p, fd + 1)

\* filetable_destroy(curproc->files) by process p, whose caller then clears
\* curproc->files, the table being freed.
filetable_destroy(s, p) ==
  IF ~s.files[p].valid THEN panic(s)
  ELSE
    LET s1 == destroy_from(s, p, 0)
    IN  IF s1.fault # "none" THEN s1
        ELSE [s1 EXCEPT !.files[p] = NoFiles]

\* the tail of filetable_dup2file: up the refcount, set the slot.
dup2_install(s, p, file, newfd) ==
  [lock_release([lock_acquire(s, file, p) EXCEPT !.heap[file].refs = @ + 1],
                file)
     EXCEPT !.files[p].handles[newfd] = file]

\* filetable_dup2file without the refs++.
filetable_dup2file_no_incref(s, p, oldfd, newfd) ==
  IF oldfd < 0 \/ oldfd >= OPEN_MAX \/ newfd < 0 \/ newfd >= OPEN_MAX
  THEN [st |-> s, res |-> EBADF, file |-> NULL]
  ELSE
    LET file == s.files[p].handles[oldfd]
    IN  IF file = NULL THEN [st |-> s, res |-> EBADF, file |-> file]
        ELSE IF oldfd = newfd THEN [st |-> s, res |-> SUCCESS, file |-> file]
        ELSE
          LET c == IF s.files[p].handles[newfd] # NULL
                   THEN file_close(s, p, newfd)
                   ELSE [st |-> s, res |-> SUCCESS]
          IN  IF c.res # SUCCESS \/ c.st.fault # "none"
              THEN [st |-> c.st, res |-> c.res, file |-> file]
              ELSE [st  |-> [c.st EXCEPT !.files[p].handles[newfd] = file],
                    res |-> SUCCESS, file |-> file]

\* filetable_dup2file without the oldfd == newfd test.
filetable_dup2file_no_self_test(s, p, oldfd, newfd) ==
  IF oldfd < 0 \/ oldfd >= OPEN_MAX \/ newfd < 0 \/ newfd >= OPEN_MAX
  THEN [st |-> s, res |-> EBADF, file |-> NULL]
  ELSE
    LET file == s.files[p].handles[oldfd]
    IN  IF file = NULL THEN [st |-> s, res |-> EBADF, file |-> file]
        ELSE
          LET c == IF s.files[p].handles[newfd] # NULL
                   THEN file_close(s, p, newfd)
                   ELSE [st |-> s, res |-> SUCCESS]
          IN  IF c.res # SUCCESS \/ c.st.fault # "none"
              THEN [st |-> c.st, res |-> c.res, file |-> file]
              ELSE IF c.st.heap[file].st # "live"
                   THEN [st |-> use_after_free(c.st), res |-> SUCCESS,
                         file |-> file]
                   ELSE [st  |-> dup2_install(c.st, p, file, newfd),
                         res |-> SUCCESS, file |-> file]

\* filetable_dup2file that does not close newfd first.
filetable_dup2file_no_close(s, p, oldfd, newfd) ==
  IF oldfd < 0 \/ oldfd >= OPEN_MAX \/ newfd < 0 \/ newfd >= OPEN_MAX
  THEN [st |-> s, res |-> EBADF, file |-> NULL]
  ELSE
    LET file == s.files[p].handles[oldfd]
    IN  IF file = NULL THEN [st |-> s, res |-> EBADF, file |-> file]
        ELSE IF oldfd = newfd THEN [st |-> s, res |-> SUCCESS, file |-> file]
        ELSE [st  |-> dup2_install(s, p, file, newfd),
              res |-> SUCCESS, file |-> file]

\* filetable_dup2file from the close of newfd on, setting the slot without
\* the refs++.
dup2_after_close_no_incref(p, file, newfd, c) ==
  IF c.res # SUCCESS \/ c.st.fault # "none"
  THEN [st |-> c.st, res |-> c.res, file |-> file]
  ELSE [st  |-> [c.st EXCEPT !.files[p].handles[newfd] = file],
        res |-> SUCCESS, file |-> file]

\* filetable_dup2file from the close of newfd on: c is what that file_close
\* returned and the state it left (for an empty newfd: no close, success).
dup2_after_close(p, file, newfd, c) ==
  LET s1 == c.st
  IN  IF c.res # SUCCESS \/ s1.fault # "none"
      THEN [st |-> s1, res |-> c.res, file |-> file]
      ELSE IF s1.heap[file].st # "live"
           THEN [st |-> use_after_free(s1), res |-> SUCCESS, file |-> file]
           ELSE [st  |-> dup2_install(s1, p, file, newfd),
                 res |-> SUCCESS, file |-> file]

filetable_dup2file(s, p, oldfd, newfd) ==
  IF oldfd < 0 \/ oldfd >= OPEN_MAX \/ newfd < 0 \/ newfd >= OPEN_MAX
  THEN [st |-> s, res |-> EBADF, file |-> NULL]
  ELSE
    LET file == s.files[p].handles[oldfd]
    IN  IF file = NULL THEN [st |-> s, res |-> EBADF, file |-> file]
        ELSE IF oldfd = newfd THEN [st |-> s, res |-> SUCCESS, file |-> file]
        ELSE dup2_after_close(
               p, file, newfd,
               IF s.files[p].handles[newfd] # NULL
               THEN file_close(s, p, newfd)
               ELSE [st |-> s, res |-> SUCCESS])

\* ------------------------------------------------------------ specification
Init ==
  /\ files = [p \in Proc |-> NoFiles]
  /\ heap = [h \in Handle |-> Free]
  /\ vnodes = [v \in Vnode |-> FALSE]
  /\ fault = "none"
  /\ last = [op |-> "boot", res |-> SUCCESS, fd |-> NoFd, file |-> NULL]
  /\ ncalls = 0
  /\ thread = [p \in Proc |-> Idle]

\* VFS objects that are not open
Unopened == {v \in Vnode : ~vnodes[v]}

\* a call can be made: the kernel has not stopped, and the run is not over
CanCall ==
  /\ fault = "none"
  /\ ncalls < MaxCalls

\* the state after a call
Becomes(s) ==
  /\ files' = s.files
  /\ heap' = s.heap
  /\ vnodes' = s.vnodes
  /\ fault' = s.fault

\* The call op returns res; fd is what it stored in its int out-parameter and
\* file the value of its local variable file (NoFd, NULL: it has none, or
\* never assigned it).
Returned(op, res, fd, file) ==
  /\ ncalls' = ncalls + 1
  /\ last' = [op |-> op, res |-> res, fd |-> fd, file |-> file]
  /\ UNCHANGED thread

\* sys_open -> file_open, in process p
FileOpen(p, flags, fail) ==
  /\ CanCall
  /\ files[p].valid
  /\ fail = "vfs_open" \/ Unopened # {}
  /\ LET r == file_open(State, p, flags, fail)
     IN  Becomes(r.st) /\ Returned("file_open", r.res, r.fd, r.file)

\* sys_close -> file_close, in process p
FileClose(p, fd) ==
  /\ CanCall
  /\ files[p].valid
  /\ LET r == file_close(State, p, fd)
     IN  Becomes(r.st) /\ Returned("file_close", r.res, NoFd, r.file)

\* sys_read, sys_write, sys_lseek -> filetable_findfile, in process p
FindFile(p, fd) ==
  /\ CanCall
  /\ files[p].valid
  /\ LET r == filetable_findfile(State, p, fd)
     IN  /\ UNCHANGED <<files, heap, vnodes, fault>>
         /\ Returned("filetable_findfile", r.res, NoFd, r.file)

\* sys_dup2 -> filetable_dup2file, in process p
Dup2File(p, oldfd, newfd) ==
  /\ CanCall
  /\ files[p].valid
  /\ LET r == filetable_dup2file(State, p, oldfd, newfd)
     IN  Becomes(r.st) /\ Returned("filetable_dup2file", r.res, NoFd, r.file)

\* where the opens of filetable_init may fail: none does, or the k-th does
InitFails ==
  {[k \in 1..3 |-> "none"]}
    \cup {[k \in 1..3 |-> IF k = n THEN f ELSE "none"] :
            n \in 1..3, f \in OpenFails \ {"none"}}

\* filetable_init in a process that has no table yet
TableInit(p, failTable, fails) ==
  /\ CanCall
  /\ ~files[p].valid
  /\ Cardinality(Unopened) >= 3
  /\ LET r == filetable_init(State, p, failTable, fails)
     IN  Becomes(r.st) /\ Returned("filetable_init", r.res, NoFd, NULL)

\* fork: process p copies its table, and the copy becomes the table of the
\* new process q
TableCopy(p, q, fail) ==
  /\ CanCall
  /\ p # q
  /\ ~files[q].valid
  /\ LET r == filetable_copy(State, p, fail)
     IN  /\ Becomes([r.st EXCEPT !.files[q] = r.copy])
         /\ Returned("filetable_copy", r.res, NoFd, NULL)

\* exit: filetable_destroy on the table of process p
TableDestroy(p) ==
  /\ CanCall
  /\ files[p].valid
  /\ Becomes(filetable_destroy(State, p))
  /\ Returned("filetable_destroy", SUCCESS, NoFd, NULL)

Next ==
  \/ \E p \in Proc, flags \in OpenFlags, fail \in OpenFails :
       FileOpen(p, flags, fail)
  \/ \E p \in Proc, fd \in FdArgs : FileClose(p, fd)
  \/ \E p \in Proc, fd \in FdArgs : FindFile(p, fd)
  \/ \E p \in Proc, oldfd \in FdArgs, newfd \in FdArgs :
       Dup2File(p, oldfd, newfd)
  \/ \E p \in Proc, failTable \in BOOLEAN, fails \in InitFails :
       TableInit(p, failTable, fails)
  \/ \E p \in Proc, q \in Proc, fail \in BOOLEAN : TableCopy(p, q, fail)
  \/ \E p \in Proc : TableDestroy(p)

Spec == Init /\ [][Next]_vars

\* ------------------------------------------------------- interleaved calls
\* SpecConc: one thread per process, as curproc->files is used without a
\* lock.  The threads run file_open, file_close, filetable_dup2file,
\* filetable_copy and filetable_destroy on descriptors that are open, and a
\* thread is preempted before every lock_acquire, lock_release, kfree and
\* write to a slot.  thread[p].copy keeps the table a filetable_copy has
\* made: the table of a child that makes no call.
\* the kernel at boot: no table, no openfile, no VFS object open
Boot ==
  [files  |-> [p \in Proc |-> NoFiles],
   heap   |-> [h \in Handle |-> Free],
   vnodes |-> [v \in Vnode |-> FALSE],
   fault  |-> "none"]

\* s after process 1 has forked processes 2..n: each has a copy of its table
RECURSIVE Forked(_, _)
Forked(s, n) ==
  IF n <= 1 THEN s
  ELSE LET s1 == Forked(s, n - 1)
           r  == filetable_copy(s1, 1, FALSE)
       IN  [r.st EXCEPT !.files[n] = r.copy]

\* Process 1 has made its table with filetable_init and forked the others:
\* every process has stdin, stdout and stderr, shared with all others.
ConcInit ==
  LET s == Forked(
             filetable_init(Boot, 1, FALSE, [k \in 1..3 |-> "none"]).st,
             NPROC)
  IN  /\ files = s.files
      /\ heap = s.heap
      /\ vnodes = s.vnodes
      /\ fault = s.fault
      /\ last = [op |-> "boot", res |-> SUCCESS, fd |-> NoFd, file |-> NULL]
      /\ ncalls = 0
      /\ thread = [p \in Proc |-> Idle]

\* file_doclose under the lock, with the vfs_close on every close.
doclose_locked_closes_always(s, file) ==
  IF s.heap[file].refs = 1
  THEN [st |-> vfs_close(s, s.heap[file].vn), last |-> TRUE]
  ELSE [st   |-> vfs_close([s EXCEPT !.heap[file].refs = @ - 1],
                           s.heap[file].vn),
        last |-> FALSE]

\* file_doclose under the lock: the test of refs, and the vfs_close of the
\* last close or the refs-- of another.  last: this was the last close.
doclose_locked(s, file) ==
  IF s.heap[file].refs = 1
  THEN [st |-> vfs_close(s, s.heap[file].vn), last |-> TRUE]
  ELSE IF s.heap[file].refs > 1
       THEN [st |-> [s EXCEPT !.heap[file].refs = @ - 1], last |-> FALSE]
       ELSE [st |-> panic(s), last |-> FALSE]

\* file_doclose that returns without the lock_release.
doclose_unlock_forgotten(s, file) == s

\* file_doclose: lock_release(file->lock), on either branch
doclose_unlock(s, file) == lock_release(s, file)

\* file_doclose: lock_destroy(file->lock); kfree(file).  Destroying a lock
\* that is held stops the kernel.
doclose_free(s, file) ==
  IF s.heap[file].holder # 0 THEN [s EXCEPT !.fault = "lock_destroy_held"]
  ELSE kfree(s, file)

\* lock_acquire(h->lock) with the h->refs++ left out.
incref_locked_lost(s, h, p) == lock_acquire(s, h, p)

\* lock_acquire(h->lock); h->refs++ of filetable_copy and filetable_dup2file
incref_locked(s, h, p) == [lock_acquire(s, h, p) EXCEPT !.heap[h].refs = @ + 1]

\* the first occupied slot of table t from slot fd on; OPEN_MAX: there is none
RECURSIVE NextOccupied(_, _)
NextOccupied(t, fd) ==
  IF fd >= OPEN_MAX THEN OPEN_MAX
  ELSE IF t[fd] # NULL THEN fd
       ELSE NextOccupied(t, fd + 1)

\* the thread of process p can start a call
CanStart(p) ==
  /\ fault = "none"
  /\ ncalls < MaxCalls
  /\ thread[p].pc = "idle"
  /\ files[p].valid

\* the thread of process p is at pc in a call
At(p, pc) == fault = "none" /\ thread[p].pc = pc

\* thread record t after its call has returned res
Return(t, res) == [Idle EXCEPT !.op = t.op, !.res = res, !.copy = t.copy]

\* the thread of process p enters a call: its record becomes t
Enters(p, t) ==
  /\ thread' = [thread EXCEPT ![p] = t]
  /\ ncalls' = ncalls + 1
  /\ UNCHANGED <<files, heap, vnodes, fault, last>>

\* the thread of process p takes a step of its call, to state s and record t
Steps(p, s, t) ==
  /\ Becomes(s)
  /\ thread' = [thread EXCEPT ![p] = t]
  /\ UNCHANGED <<last, ncalls>>

\* file_open by the thread of process p.  It takes no lock and touches only
\* what it has made itself and the table of p: one step.
ConcOpen(p, flags, fail) ==
  /\ CanStart(p)
  /\ fail = "vfs_open" \/ Unopened # {}
  /\ fail \in {"vfs_open", "kmalloc"} \/ \E h \in Handle : heap[h].st = "free"
  /\ LET r == file_open(State, p, flags, fail)
     IN  /\ Becomes(r.st)
         /\ thread' = [thread EXCEPT
                         ![p] = Return([@ EXCEPT !.op = "file_open"], r.res)]
         /\ ncalls' = ncalls + 1
         /\ UNCHANGED last

\* file_close(fd) up to the call of file_doclose: filetable_findfile has
\* found the openfile
CloseEnter(p, fd) ==
  /\ CanStart(p)
  /\ files[p].handles[fd] # NULL
  /\ Enters(p, [thread[p] EXCEPT !.pc = "dc_acquire", !.op = "file_close",
                                 !.fd = fd, !.cfile = files[p].handles[fd]])

\* filetable_dup2file(oldfd, newfd), oldfd # newfd, up to the file_close of
\* newfd or, newfd being empty, up to the lock_acquire
Dup2Enter(p, oldfd, newfd) ==
  /\ CanStart(p)
  /\ oldfd # newfd
  /\ files[p].handles[oldfd] # NULL
  /\ LET t == [thread[p] EXCEPT !.op = "filetable_dup2file", !.fd = newfd,
                                !.file = files[p].handles[oldfd]]
     IN  IF files[p].handles[newfd] # NULL
         THEN Enters(p, [t EXCEPT !.pc = "dc_acquire",
                                  !.cfile = files[p].handles[newfd]])
         ELSE Enters(p, [t EXCEPT !.pc = "inc_acquire"])

\* the loop of filetable_copy at slot fd: on to the next occupied slot, or
\* return
CopyAt(tab, t, fd) ==
  LET i == NextOccupied(tab, fd)
  IN  IF i = OPEN_MAX THEN Return(t, SUCCESS)
      ELSE [t EXCEPT !.pc = "inc_acquire", !.fd = i]

\* filetable_copy up to the first lock_acquire: the new table is allocated
CopyEnter(p) ==
  /\ CanStart(p)
  /\ ~thread[p].copy.valid
  /\ Enters(p, CopyAt(files[p].handles,
                      [thread[p] EXCEPT
                         !.op = "filetable_copy",
                         !.copy = [valid |-> TRUE, handles |-> NullTable]],
                      0))

\* the loop of filetable_destroy, stopping one slot short of OPEN_MAX.
DestroyAt_short(tab, t, fd) ==
  LET i == NextOccupied(tab, fd)
  IN  IF i >= OPEN_MAX - 1 THEN [t EXCEPT !.pc = "fd_free", !.fd = i,
                                         !.cfile = NULL]
      ELSE [t EXCEPT !.pc = "dc_acquire", !.fd = i, !.cfile = tab[i]]

\* the loop of filetable_destroy at slot fd: on to the file_doclose of the
\* next occupied slot, or to the kfree of the table
DestroyAt(tab, t, fd) ==
  LET i == NextOccupied(tab, fd)
  IN  IF i = OPEN_MAX THEN [t EXCEPT !.pc = "fd_free", !.fd = i,
                                     !.cfile = NULL]
      ELSE [t EXCEPT !.pc = "dc_acquire", !.fd = i, !.cfile = tab[i]]

\* filetable_destroy up to the first file_doclose
DestroyEnter(p) ==
  /\ CanStart(p)
  /\ Enters(p, DestroyAt(files[p].handles,
                         [thread[p] EXCEPT !.op = "filetable_destroy"], 0))

\* file_doclose: lock_acquire(file->lock); waits while the lock is held
DocloseAcquire(p) ==
  /\ At(p, "dc_acquire")
  /\ LET file == thread[p].cfile
     IN  IF heap[file].st # "live"
         THEN Steps(p, use_after_free(State), thread[p])
         ELSE /\ heap[file].holder = 0
              /\ Steps(p, lock_acquire(State, file, p),
                       [thread[p] EXCEPT !.pc = "dc_locked"])

\* file_doclose: the test of refs and its branch, up to the lock_release
DocloseLocked(p) ==
  /\ At(p, "dc_locked")
  /\ LET r == doclose_locked(State, thread[p].cfile)
     IN  Steps(p, r.st,
               [thread[p] EXCEPT
                  !.pc = IF r.last THEN "dc_unlock_last" ELSE "dc_unlock"])

\* where a thread goes on after file_doclose has returned 0: to the next slot
\* of filetable_destroy, or to the slot write of file_close
AfterDoclose(p, t) ==
  IF t.op = "filetable_destroy"
  THEN DestroyAt(files[p].handles, t, t.fd + 1)
  ELSE [t EXCEPT !.pc = "fc_clear"]

\* file_doclose: lock_release(file->lock)
DocloseUnlock(p) ==
  /\ thread[p].pc \in {"dc_unlock", "dc_unlock_last"}
  /\ fault = "none"
  /\ Steps(p, doclose_unlock(State, thread[p].cfile),
           IF thread[p].pc = "dc_unlock_last"
           THEN [thread[p] EXCEPT !.pc = "dc_free"]
           ELSE AfterDoclose(p, thread[p]))

\* file_doclose: lock_destroy(file->lock); kfree(file); return 0
DocloseFree(p) ==
  /\ At(p, "dc_free")
  /\ Steps(p, doclose_free(State, thread[p].cfile),
           AfterDoclose(p, thread[p]))

\* file_close that returns 0 without the write to the slot.
CloseClear_not(p) ==
  /\ At(p, "fc_clear")
  /\ Steps(p, State,
           IF thread[p].op = "filetable_dup2file"
           THEN [thread[p] EXCEPT !.pc = "inc_acquire", !.cfile = NULL]
           ELSE Return(thread[p], SUCCESS))

\* file_close: curproc->files->handles[fd] = NULL; return 0, to the caller
\* or into filetable_dup2file
CloseClear(p) ==
  /\ At(p, "fc_clear")
  /\ Steps(p, [State EXCEPT !.files[p].handles[thread[p].fd] = NULL],
           IF thread[p].op = "filetable_dup2file"
           THEN [thread[p] EXCEPT !.pc = "inc_acquire", !.cfile = NULL]
           ELSE Return(thread[p], SUCCESS))

\* the openfile whose refs a thread in filetable_dup2file or filetable_copy
\* is about to raise, or has raised
IncrefFile(p) ==
  IF thread[p].op = "filetable_dup2file" THEN thread[p].file
  ELSE files[p].handles[thread[p].fd]

\* filetable_copy, filetable_dup2file: lock_acquire, and refs++ under it
IncrefAcquire(p) ==
  /\ At(p, "inc_acquire")
  /\ LET h == IncrefFile(p)
     IN  IF heap[h].st # "live"
         THEN Steps(p, use_after_free(State), thread[p])
         ELSE /\ heap[h].holder = 0
              /\ Steps(p, incref_locked(State, h, p),
                       [thread[p] EXCEPT !.pc = "inc_unlock"])

\* filetable_copy, filetable_dup2file: lock_release after the refs++
IncrefUnlock(p) ==
  /\ At(p, "inc_unlock")
  /\ Steps(p, lock_release(State, IncrefFile(p)),
           [thread[p] EXCEPT !.pc = "inc_set"])

\* filetable_dup2file: ft->handles[newfd] = file; return 0.  filetable_copy:
\* (*copy)->handles[fd] = ft->handles[fd], and on with the loop.
IncrefSet(p) ==
  /\ At(p, "inc_set")
  /\ IF thread[p].op = "filetable_dup2file"
     THEN Steps(p, [State EXCEPT
                      !.files[p].handles[thread[p].fd] = thread[p].file],
                Return(thread[p], SUCCESS))
     ELSE Steps(p, State,
                CopyAt(files[p].handles,
                       [thread[p] EXCEPT
                          !.copy.handles[thread[p].fd] = IncrefFile(p)],
                       thread[p].fd + 1))

\* filetable_destroy: kfree(ft), and the caller's curproc->files = NULL
DestroyFree(p) ==
  /\ At(p, "fd_free")
  /\ Steps(p, [State EXCEPT !.files[p] = NoFiles], Return(thread[p], SUCCESS))

ConcNext ==
  \/ \E p \in Proc, flags \in OpenFlags, fail \in OpenFails :
       ConcOpen(p, flags, fail)
  \/ \E p \in Proc, fd \in Fds : CloseEnter(p, fd)
  \/ \E p \in Proc, oldfd \in Fds, newfd \in Fds : Dup2Enter(p, oldfd, newfd)
  \/ \E p \in Proc : CopyEnter(p)
  \/ \E p \in Proc : DestroyEnter(p)
  \/ \E p \in Proc : DocloseAcquire(p)
  \/ \E p \in Proc : DocloseLocked(p)
  \/ \E p \in Proc : DocloseUnlock(p)
  \/ \E p \in Proc : DocloseFree(p)
  \/ \E p \in Proc : CloseClear(p)
  \/ \E p \in Proc : IncrefAcquire(p)
  \/ \E p \in Proc : IncrefUnlock(p)
  \/ \E p \in Proc : IncrefSet(p)
  \/ \E p \in Proc : DestroyFree(p)

SpecConc == ConcInit /\ [][ConcNext]_vars

\* ------------------------------------------------------------------ claims
\* the slots of process p
Slots(p) == files[p].handles

\* first empty slot of table t
LowestFree(t) ==
  CHOOSE i \in Fds : t[i] = NULL /\ \A j \in Fds : j < i => t[j] # NULL

\* the openfiles that exist, and the VFS objects they wrap
Live == {h \in Handle : heap[h].st = "live"}

\* the fails argument of a filetable_init in which no open fails
NoFails == [k \in 1..3 |-> "none"]

\* C1: the VFS object of an openfile is closed at most once, by the release
\* from the last slot that references the openfile, and by no release made
\* while other slots reference it.  No vfs_close ever hits a VFS object that
\* is not open; a file_close or a filetable_destroy leaves the VFS object of
\* an openfile open, and the openfile allocated, exactly if slots that the
\* call does not release still reference it.  After every call, the VFS
\* objects that are open are those of the openfiles some slot references,
\* one openfile each.
C1_ClosedOnceByLastRelease ==
  /\ fault # "vfs_double_close"
  /\ \A h \in Handle : heap[h].st = "live" <=> RefSlots(files, h) >= 1
  /\ \A v \in Vnode :
       vnodes[v] <=> Cardinality({h \in Live : heap[h].vn = v}) = 1
  /\ \A h \in Live : vnodes[heap[h].vn]
  /\ \A p \in Proc, fd \in Fds :
       (files[p].valid /\ Slots(p)[fd] # NULL) =>
         LET h == Slots(p)[fd]
             r == file_close(State, p, fd)
         IN  /\ r.st.fault = "none"
             /\ RefSlots(files, h) > 1 =>
                  r.st.heap[h].st = "live" /\ r.st.vnodes[heap[h].vn]
             /\ RefSlots(files, h) = 1 =>
                  r.st.heap[h].st = "free" /\ ~r.st.vnodes[heap[h].vn]
             /\ \A v \in Vnode \ {heap[h].vn} : r.st.vnodes[v] = vnodes[v]
  /\ \A p \in Proc :
       files[p].valid =>
         LET s == filetable_destroy(State, p)
         IN  /\ s.fault = "none"
             /\ \A h \in Live :
                  IF RefSlots(files, h) > SlotCount(Slots(p), h)
                  THEN s.heap[h].st = "live" /\ s.vnodes[heap[h].vn]
                  ELSE s.heap[h].st = "free" /\ ~s.vnodes[heap[h].vn]

\* C1 witness: a file_close has released the last slot of an openfile, which
\* is gone, while other openfiles remain.
C1_Witness ==
  /\ last.op = "file_close"
  /\ last.res = SUCCESS
  /\ heap[last.file].st = "free"
  /\ RefSlots(files, last.file) = 0
  /\ Live # {}

\* C2: between calls, the refs field of every openfile is the number of
\* slots, over all tables, that point at it; it is at least 1 while the
\* openfile exists, and 1 right after the file_open that made it.
C2_RefsCountSlots ==
  /\ \A h \in Handle :
       IF heap[h].st = "live"
       THEN heap[h].refs = RefSlots(files, h) /\ heap[h].refs >= 1
       ELSE RefSlots(files, h) = 0
  /\ (last.op = "file_open" /\ last.res = SUCCESS) =>
       heap[last.file].st = "live" /\ heap[last.file].refs = 1

\* C2 witness: an openfile referenced from the tables of two processes and
\* twice from one of them.
C2_Witness ==
  \E h \in Live :
    /\ heap[h].refs = 3
    /\ \E p \in Proc, q \in Proc :
         p # q /\ SlotCount(Slots(p), h) = 2 /\ SlotCount(Slots(q), h) = 1

\* C3: on a table with an empty slot, filetable_placefile stores the openfile
\* in the empty slot of smallest index, returns that index and changes
\* nothing else; and after a file_close of a descriptor below which no slot
\* is empty, the next file_open returns that descriptor.
C3_PlaceLowestFree ==
  /\ \A p \in Proc, file \in Handle :
       (files[p].valid /\ \E i \in Fds : Slots(p)[i] = NULL) =>
         LET r == filetable_placefile(State, p, file)
             i == LowestFree(Slots(p))
         IN  /\ r.res = SUCCESS
             /\ r.fd = i
             /\ r.st = [State EXCEPT !.files[p].handles[i] = file]
  /\ \A p \in Proc, fd \in Fds, flags \in OpenFlags :
       (/\ files[p].valid
        /\ Slots(p)[fd] # NULL
        /\ \A j \in Fds : j < fd => Slots(p)[j] # NULL) =>
         LET c == file_close(State, p, fd)
             o == file_open(c.st, p, flags, "none")
         IN  (\E v \in Vnode : ~c.st.vnodes[v]) =>
               o.res = SUCCESS /\ o.fd = fd

\* C3 witness: file_open has returned descriptor 1, the only empty slot
\* below occupied ones.
C3_Witness ==
  /\ last.op = "file_open"
  /\ last.res = SUCCESS
  /\ last.fd = 1
  /\ \E p \in Proc :
       /\ Slots(p)[1] = last.file
       /\ Slots(p)[0] # NULL
       /\ Slots(p)[2] # NULL

\* C4: with every slot of the table occupied, file_open returns EMFILE and
\* leaves all tables and all openfiles as they were; the VFS object it
\* obtained is closed again, once, and its openfile freed.
C4_OpenOnFullTable ==
  \A p \in Proc, flags \in OpenFlags :
    (/\ files[p].valid
     /\ \A i \in Fds : Slots(p)[i] # NULL
     /\ Unopened # {}) =>
      LET r == file_open(State, p, flags, "none")
      IN  /\ r.res = EMFILE
          /\ r.st.files = files
          /\ r.st.heap = heap
          /\ r.st.vnodes = vnodes
          /\ r.st.fault = "none"

\* C4 witness: a file_open has returned EMFILE; its openfile is freed.
C4_Witness ==
  /\ last.op = "file_open"
  /\ last.res = EMFILE
  /\ last.file # NULL
  /\ heap[last.file].st = "free"
  /\ \E p \in Proc : files[p].valid /\ \A i \in Fds : Slots(p)[i] # NULL

\* C5: a successful filetable_copy returns a table equal to the source slot
\* for slot, leaves the source and every other table unchanged, and raises
\* the refs of each openfile by the number of source slots that hold it.
C5_CopyMirrorsSource ==
  \A p \in Proc :
    files[p].valid =>
      LET r == filetable_copy(State, p, FALSE)
      IN  /\ r.res = SUCCESS
          /\ r.copy.valid
          /\ r.copy.handles = Slots(p)
          /\ r.st.files = files
          /\ r.st.vnodes = vnodes
          /\ \A h \in Handle :
               r.st.heap[h] =
                 [heap[h] EXCEPT !.refs = @ + SlotCount(Slots(p), h)]

\* C5 witness: a filetable_copy has returned a copy of a table that holds
\* one openfile in two slots.
C5_Witness ==
  /\ last.op = "filetable_copy"
  /\ last.res = SUCCESS
  /\ \E p \in Proc, q \in Proc, h \in Live :
       /\ p # q
       /\ files[p].valid
       /\ files[q] = files[p]
       /\ SlotCount(Slots(p), h) = 2
       /\ heap[h].refs = 4

\* C6: filetable_dup2file(fd, fd) on an occupied slot succeeds and changes
\* nothing: no table, no openfile, no VFS object.
C6_Dup2SelfIsNoop ==
  \A p \in Proc, fd \in Fds :
    (files[p].valid /\ Slots(p)[fd] # NULL) =>
      LET r == filetable_dup2file(State, p, fd, fd)
      IN  r.res = SUCCESS /\ r.st = State

\* C6 witness: a filetable_dup2file has succeeded on an openfile that one
\* slot references, which only a call with oldfd = newfd leaves behind.
C6_Witness ==
  /\ last.op = "filetable_dup2file"
  /\ last.res = SUCCESS
  /\ heap[last.file].st = "live"
  /\ RefSlots(files, last.file) = 1

\* what filetable_dup2file(oldfd, newfd) does to the openfile H that newfd
\* held, H being another openfile than the one of oldfd: nothing to no
\* openfile; an openfile with refs 1 is destroyed and its VFS object closed;
\* one with more refs loses one.
Displaced(r, H) ==
  IF H = NULL THEN r.st.vnodes = vnodes
  ELSE IF heap[H].refs = 1
       THEN /\ r.st.heap[H].st = "free"
            /\ r.st.vnodes = [vnodes EXCEPT ![heap[H].vn] = FALSE]
       ELSE /\ r.st.heap[H] = [heap[H] EXCEPT !.refs = @ - 1]
            /\ r.st.vnodes = vnodes

\* C7, as amended: after a successful filetable_dup2file(a, b) with a # b,
\* slots a and b hold the openfile of a and no slot but b has changed.  If b
\* held another openfile H, or none, the refs of a's openfile is one higher
\* than before, and H is destroyed (VFS object closed once) if its refs was
\* 1, or has lost one reference if it was more.  If b already held the
\* openfile of a, its refs is what it was before the call.
C7_Dup2Aliases ==
  \A p \in Proc, a \in Fds, b \in Fds :
    (a # b /\ files[p].valid /\ Slots(p)[a] # NULL) =>
      LET file == Slots(p)[a]
          H    == Slots(p)[b]
          r    == filetable_dup2file(State, p, a, b)
      IN  /\ r.res = SUCCESS
          /\ r.st.fault = "none"
          /\ r.st.files = [files EXCEPT ![p].handles[b] = file]
          /\ \A h \in Handle \ {file, H} : r.st.heap[h] = heap[h]
          /\ IF H = file
             THEN r.st.heap = heap /\ r.st.vnodes = vnodes
             ELSE /\ r.st.heap[file] = [heap[file] EXCEPT !.refs = @ + 1]
                  /\ Displaced(r, H)

\* C7, as claimed: the refs of a's openfile is one higher than before
\* whatever b held, and an openfile H that b held with refs > 1 has lost one
\* reference.
C7_Original ==
  \A p \in Proc, a \in Fds, b \in Fds :
    (a # b /\ files[p].valid /\ Slots(p)[a] # NULL) =>
      LET file == Slots(p)[a]
          H    == Slots(p)[b]
          r    == filetable_dup2file(State, p, a, b)
      IN  /\ r.res = SUCCESS
          /\ r.st.files = [files EXCEPT ![p].handles[b] = file]
          /\ r.st.heap[file].refs = heap[file].refs + 1
          /\ (H # NULL /\ heap[H].refs = 1) => r.st.heap[H].st = "free"
          /\ (H # NULL /\ heap[H].refs > 1) =>
               r.st.heap[H].st = "live"
                 /\ r.st.heap[H].refs = heap[H].refs - 1

\* C7 witness: a filetable_dup2file has made a second slot of a table hold
\* an openfile, and destroyed the openfile that slot held: its address is
\* free again, below that of an openfile made after it.
C7_Witness ==
  /\ last.op = "filetable_dup2file"
  /\ last.res = SUCCESS
  /\ heap[last.file].refs = 2
  /\ \E p \in Proc : SlotCount(Slots(p), last.file) = 2
  /\ \E H \in Handle, g \in Live : H < g /\ heap[H].st = "free"

\* C8: file_close of a descriptor whose openfile has refs > 1 takes one off
\* refs, empties that slot only, closes no VFS object, and every other slot
\* that holds the openfile still finds it, allocated, by filetable_findfile.
C8_CloseAliased ==
  \A p \in Proc, fd \in Fds :
    (/\ files[p].valid
     /\ Slots(p)[fd] # NULL
     /\ heap[Slots(p)[fd]].refs > 1) =>
      LET h == Slots(p)[fd]
          r == file_close(State, p, fd)
      IN  /\ r.res = SUCCESS
          /\ r.st.fault = "none"
          /\ r.st.heap = [heap EXCEPT ![h].refs = @ - 1]
          /\ r.st.files = [files EXCEPT ![p].handles[fd] = NULL]
          /\ r.st.vnodes = vnodes
          /\ \A q \in Proc, g \in Fds :
               (files[q].handles[g] = h /\ <<q, g>> # <<p, fd>>) =>
                 /\ filetable_findfile(r.st, q, g) =
                      [res |-> SUCCESS, file |-> h]
                 /\ r.st.heap[h].st = "live"

\* C8 witness: a file_close has closed a descriptor of an openfile that
\* another slot still holds.
C8_Witness ==
  /\ last.op = "file_close"
  /\ last.res = SUCCESS
  /\ heap[last.file].st = "live"
  /\ RefSlots(files, last.file) >= 1

\* C9: a successful filetable_init of a process without a table gives it a
\* table whose slots 0, 1 and 2 hold three different openfiles, opened in
\* that order, read-only, write-only and write-only, each with offset 0 and
\* refs 1, and whose other slots are empty.
C9_InitStdFds ==
  \A p \in Proc :
    (~files[p].valid /\ Cardinality(Unopened) >= 3) =>
      LET r == filetable_init(State, p, FALSE, NoFails)
          t == r.st.files[p].handles
      IN  /\ r.res = SUCCESS
          /\ r.st.files[p].valid
          /\ \A fd \in Fds : t[fd] # NULL <=> fd \in {0, 1, 2}
          /\ Cardinality({t[0], t[1], t[2]}) = 3
          /\ \A fd \in {0, 1, 2} :
               /\ heap[t[fd]].st = "free"
               /\ r.st.heap[t[fd]].st = "live"
               /\ r.st.heap[t[fd]].offset = 0
               /\ r.st.heap[t[fd]].refs = 1
               /\ r.st.heap[t[fd]].mode =
                    IF fd = 0 THEN O_RDONLY ELSE O_WRONLY
               /\ ~vnodes[r.st.heap[t[fd]].vn]
               /\ r.st.vnodes[r.st.heap[t[fd]].vn]
          /\ r.st.heap[t[0]].vn < r.st.heap[t[1]].vn
          /\ r.st.heap[t[1]].vn < r.st.heap[t[2]].vn

\* C9 witness: a filetable_init has succeeded.
C9_Witness ==
  /\ last.op = "filetable_init"
  /\ last.res = SUCCESS
  /\ \E p \in Proc :
       /\ files[p].valid
       /\ \A fd \in Fds : Slots(p)[fd] # NULL <=> fd \in {0, 1, 2}

\* C10: on a table with an empty slot, a successful file_open followed at
\* once by file_close of the descriptor it returned leaves every table and
\* every openfile that existed as before the open, and the openfile the open
\* made is destroyed.
C10_OpenThenClose ==
  \A p \in Proc, flags \in OpenFlags :
    (/\ files[p].valid
     /\ \E i \in Fds : Slots(p)[i] = NULL
     /\ Unopened # {}) =>
      LET o == file_open(State, p, flags, "none")
          c == file_close(o.st, p, o.fd)
      IN  /\ o.res = SUCCESS
          /\ o.st.files[p].handles[o.fd] = o.file
          /\ o.st.heap[o.file].st = "live"
          /\ c.res = SUCCESS
          /\ c.st.files = files
          /\ \A h \in Live : c.st.heap[h] = heap[h]
          /\ c.st.heap[o.file].st = "free"
          /\ c.st.vnodes = vnodes
          /\ c.st.fault = "none"

\* C10 witness: in a process that is alone in having a table, a file_close
\* has destroyed an openfile and the table holds the three openfiles of
\* filetable_init again, after three calls: the init, an open, the close.
C10_Witness ==
  /\ last.op = "file_close"
  /\ last.res = SUCCESS
  /\ ncalls = 3
  /\ heap[last.file].st = "free"
  /\ \E p \in Proc :
       /\ \A q \in Proc \ {p} : ~files[q].valid
       /\ \A fd \in Fds : Slots(p)[fd] # NULL <=> fd \in {0, 1, 2}
       /\ \A fd \in {0, 1, 2} : heap[Slots(p)[fd]].refs = 1
       /\ Cardinality({Slots(p)[0], Slots(p)[1], Slots(p)[2]}) = 3

\* C11: when a release (file_doclose) drops the last reference of an
\* openfile, it returns the status of the VFS's close of the VFS object, and
\* the openfile is freed whatever that status is.
C11_CloseStatusReturned ==
  \A p \in Proc, fd \in Fds :
    (/\ files[p].valid
     /\ Slots(p)[fd] # NULL
     /\ heap[Slots(p)[fd]].refs = 1) =>
      LET h == Slots(p)[fd]
          d == file_doclose(State, p, h)
      IN  /\ d.res = vfs_close_result(heap[h].vn)
          /\ d.st.heap[h].st = "free"
          /\ ~d.st.vnodes[heap[h].vn]

\* what a release of openfile h by process p may hand back to file_close:
\* what file_doclose does hand back, and a failure, reported with the
\* openfile destroyed (C11) or with nothing done.
Releases(p, h) ==
  LET d == file_doclose(State, p, h)
  IN  {d, [st |-> d.st, res |-> EIO], [st |-> State, res |-> EIO]}

\* C12: file_close returns what the release of the openfile reports; it
\* empties the slot if that is success, and if it is a failure it leaves the
\* slot, and all else, as the release left it: the slot still holds the
\* openfile.  filetable_dup2file whose file_close of an occupied newfd fails
\* returns that error, and newfd still holds the openfile it held.
C12_SlotKeptOnFailedRelease ==
  /\ \A p \in Proc, fd \in Fds :
       (files[p].valid /\ Slots(p)[fd] # NULL) =>
         LET h == Slots(p)[fd]
         IN  /\ \A d \in Releases(p, h) :
                  LET r == file_close_result(State, p, fd, h, d)
                  IN  /\ r.res = d.res
                      /\ r.st = IF d.res = SUCCESS
                                THEN [d.st EXCEPT !.files[p].handles[fd] = NULL]
                                ELSE d.st
                      /\ d.res # SUCCESS => r.st.files[p].handles[fd] = h
             /\ LET r == file_close(State, p, fd)
                 IN  IF r.res = SUCCESS
                     THEN r.st.files = [files EXCEPT ![p].handles[fd] = NULL]
                     ELSE r.st.files = files
  /\ \A p \in Proc, b \in Fds :
       (files[p].valid /\ Slots(p)[b] # NULL) =>
         \A d \in Releases(p, Slots(p)[b]) :
           d.res # SUCCESS =>
             LET c == file_close_result(State, p, b, Slots(p)[b], d)
             IN  \A a \in Fds \ {b} :
                   Slots(p)[a] # NULL =>
                     LET r == dup2_after_close(p, Slots(p)[a], b, c)
                     IN  /\ r.res = d.res
                         /\ r.st = d.st
                         /\ r.st.files[p].handles[b] = Slots(p)[b]

\* C12 witness: a file_close has emptied descriptor 1 of a table that
\* filetable_init had filled, the release having reported success; in the
\* same state a failed release of descriptor 0 or 2 is what the claim's
\* other case is about.
C12_Witness ==
  /\ last.op = "file_close"
  /\ last.res = SUCCESS
  /\ \E p \in Proc :
       /\ files[p].valid
       /\ \A fd \in Fds : Slots(p)[fd] # NULL <=> fd \in {0, 2}
       /\ \E d \in Releases(p, Slots(p)[0]) : d.res # SUCCESS

\* fd names no open file of process p: it is out of range, or its slot is
\* empty
BadFd(p, fd) == fd \notin Fds \/ Slots(p)[fd] = NULL

\* C13: filetable_findfile(fd) and file_close(fd) return EBADF if fd is out
\* of [0, OPEN_MAX) or its slot is empty, and filetable_dup2file(old, new)
\* does if that holds of old or if new is out of range; these calls change no
\* slot, no openfile and no VFS object.  On any other fd filetable_findfile
\* succeeds and returns the openfile that slot fd holds; it writes nothing.
C13_BadDescriptor ==
  \A p \in Proc :
    files[p].valid =>
      /\ \A fd \in FdArgs :
           LET f == filetable_findfile(State, p, fd)
               c == file_close(State, p, fd)
           IN  IF BadFd(p, fd)
               THEN /\ f.res = EBADF
                    /\ c.res = EBADF
                    /\ c.st = State
               ELSE /\ f.res = SUCCESS
                    /\ f.file = Slots(p)[fd]
                    /\ heap[f.file].st = "live"
      /\ \A oldfd \in FdArgs :
           \A newfd \in IF BadFd(p, oldfd) THEN FdArgs ELSE FdArgs \ Fds :
             LET r == filetable_dup2file(State, p, oldfd, newfd)
             IN  r.res = EBADF /\ r.st = State

\* C13 witness: a filetable_dup2file has returned EBADF in a process whose
\* table holds open files and an empty slot.
C13_Witness ==
  /\ last.op = "filetable_dup2file"
  /\ last.res = EBADF
  /\ \E p \in Proc :
       /\ files[p].valid
       /\ \E fd \in Fds : Slots(p)[fd] # NULL
       /\ \E fd \in Fds : Slots(p)[fd] = NULL

\* the thread of process p is inside filetable_copy, scanning its table
Copying(p) ==
  thread[p].op = "filetable_copy" /\ thread[p].pc # "idle"

\* the thread of process q is inside a release of openfile h: in the
\* file_doclose of a file_close, a filetable_dup2file or a filetable_destroy
Releasing(q, h) ==
  /\ thread[q].pc \in {"dc_acquire", "dc_locked", "dc_unlock",
                        "dc_unlock_last", "dc_free", "fc_clear"}
  /\ thread[q].cfile = h

\* openfile h exists, and its VFS object is open
Intact(h) == heap[h].st = "live" /\ vnodes[heap[h].vn]

\* C14: while the thread of a process is in filetable_copy, whatever the
\* threads of other processes do at the same time to the openfiles its table
\* shares with theirs, every openfile the source table references exists
\* with its VFS object open, and so does every openfile placed in the new
\* table, during the scan and from the return of the copy on; the new table
\* holds, slot for slot, what the source holds; no call runs into a freed
\* openfile.
C14_CopyUnderConcurrentClose ==
  /\ fault = "none"
  /\ \A p \in Proc :
       /\ Copying(p) =>
            /\ \A fd \in Fds : Slots(p)[fd] # NULL => Intact(Slots(p)[fd])
            /\ \A fd \in Fds :
                 thread[p].copy.handles[fd] \in {NULL, Slots(p)[fd]}
            /\ \A fd \in Fds :
                 (fd < thread[p].fd /\ Slots(p)[fd] # NULL) =>
                   thread[p].copy.handles[fd] = Slots(p)[fd]
       /\ \A fd \in Fds :
            thread[p].copy.handles[fd] # NULL =>
              /\ Intact(thread[p].copy.handles[fd])
              /\ heap[thread[p].copy.handles[fd]].refs >=
                   SlotCount(thread[p].copy.handles,
                             thread[p].copy.handles[fd])

\* C14 witness: the thread of p is in the scan of filetable_copy, having
\* copied a slot, while the thread of q is in the release of an openfile
\* that the table of p references, and has taken its reference off.
C14_Witness ==
  \E p \in Proc, q \in Proc :
    /\ p # q
    /\ Copying(p)
    /\ thread[p].pc = "inc_unlock"
    /\ thread[p].copy.handles[0] # NULL
    /\ thread[q].pc = "fc_clear"
    /\ \E fd \in Fds : Releasing(q, Slots(p)[fd])

\* the locks the thread of process p holds
Held(p) == {h \in Handle : heap[h].holder = p}

\* a step of a thread inside a call
Progress ==
  \E p \in Proc :
    \/ DocloseAcquire(p)
    \/ DocloseLocked(p)
    \/ DocloseUnlock(p)
    \/ DocloseFree(p)
    \/ CloseClear(p)
    \/ IncrefAcquire(p)
    \/ IncrefUnlock(p)
    \/ IncrefSet(p)
    \/ DestroyFree(p)

\* C15: no thread holds the locks of two openfiles at once; a thread that is
\* in no call holds no lock (every call has released what it acquired); and
\* while some thread is inside a call, some thread inside a call can take a
\* step: the calls never wait for each other in a circle.
C15_NoTwoLocksNoDeadlock ==
  /\ fault = "none"
  /\ \A p \in Proc :
       /\ Cardinality(Held(p)) <= 1
       /\ thread[p].pc = "idle" => Held(p) = {}
  /\ \A h \in Handle : heap[h].holder # 0 => heap[h].st = "live"
  /\ (\E p \in Proc : thread[p].pc # "idle") => ENABLED Progress

\* C15 witness: a thread in a file_close or a filetable_destroy waits at the
\* lock_acquire of file_doclose for the lock of an openfile that the thread
\* of another process holds.
C15_Witness ==
  \E p \in Proc, q \in Proc :
    /\ p # q
    /\ thread[p].pc = "dc_acquire"
    /\ thread[p].op \in {"file_close", "filetable_destroy"}
    /\ thread[p].cfile \in Held(q)
    /\ thread[q].pc \in {"inc_unlock", "dc_locked"}

\* the step is a file_open by the thread of process p
OpenStep(p) ==
  /\ thread[p].pc = "idle"
  /\ thread'[p].pc = "idle"
  /\ thread'[p].op = "file_open"
  /\ ncalls' = ncalls + 1

\* the step is the code of file_doclose under the lock, by the thread of p
LockedStep(p) == thread[p].pc = "dc_locked" /\ thread'[p].pc # "dc_locked"

\* C16: in every step: a file_open, with its vfs_open and the vfs_close of
\* its failure paths, is made by a thread that holds no lock; a VFS object
\* goes from open to closed outside file_open only in the step of
\* file_doclose under the lock, made by the holder of the lock, on the VFS
\* object of the locked openfile, whose refs is 1; a file_doclose that finds
\* refs > 1 makes no VFS call; no VFS object is closed twice; the lock is
\* free when lock_destroy and kfree run, and no thread acquires or releases
\* the lock of an openfile that is freed.
C16_LockAcrossVfsCalls ==
  [][/\ fault' = "none"
     /\ \A p \in Proc :
          /\ OpenStep(p) =>
               Held(p) = {} /\ {h \in Handle : heap'[h].holder = p} = {}
          /\ LockedStep(p) =>
               LET h == thread[p].cfile
               IN  /\ heap[h].holder = p
                   /\ heap'[h].holder = p
                   /\ IF heap[h].refs = 1
                      THEN /\ thread'[p].pc = "dc_unlock_last"
                           /\ vnodes[heap[h].vn]
                           /\ vnodes' = [vnodes EXCEPT ![heap[h].vn] = FALSE]
                      ELSE /\ thread'[p].pc = "dc_unlock"
                           /\ vnodes' = vnodes
          /\ (thread[p].pc = "dc_free" /\ thread'[p].pc # "dc_free") =>
               /\ heap[thread[p].cfile].holder = 0
               /\ heap'[thread[p].cfile].st = "free"
     /\ \A v \in Vnode :
          (vnodes[v] /\ ~vnodes'[v]) =>
            \E p \in Proc :
              /\ LockedStep(p)
              /\ heap[thread[p].cfile].vn = v
              /\ heap[thread[p].cfile].refs = 1
     /\ \A h \in Handle :
          heap'[h].holder # heap[h].holder =>
            heap[h].st = "live" /\ heap'[h].st = "live"
    ]_vars

\* C16 witness: a thread has made the vfs_close of the last close and still
\* holds the lock of the openfile, while the thread of another process is in
\* a call.
C16_Witness ==
  \E p \in Proc, q \in Proc :
    /\ p # q
    /\ thread[p].pc = "dc_unlock_last"
    /\ Held(p) = {thread[p].cfile}
    /\ ~vnodes[heap[thread[p].cfile].vn]
    /\ thread[q].pc # "idle"

\* no thread is inside a call
Quiescent == \A p \in Proc : thread[p].pc = "idle"

\* number of slots that hold h, over the tables of all processes and the
\* tables filetable_copy has made
TotalRefs(h) ==
  LET RECURSIVE Sum(_)
      Sum(P) == IF P = {} THEN 0
                ELSE LET p == CHOOSE x \in P : TRUE
                     IN  SlotCount(thread[p].copy.handles, h) + Sum(P \ {p})
  IN  RefSlots(files, h) + Sum(Proc)

\* C17: filetable_destroy releases each occupied slot of the table once and
\* frees the table: an openfile that k slots of the table hold loses k
\* references, and is destroyed, its VFS object closed, exactly if it had no
\* more than k.  However the calls of the processes were interleaved, once
\* they have returned every openfile that exists is referenced, has as many
\* refs as slots hold it, and has its VFS object open; no other VFS object
\* is open, none was closed twice; and when every table is destroyed no
\* openfile exists and no VFS object is open.
C17_DestroyReleasesAll ==
  /\ fault = "none"
  /\ Quiescent =>
       /\ \A h \in Handle :
            IF heap[h].st = "live"
            THEN /\ heap[h].refs = TotalRefs(h)
                 /\ heap[h].refs >= 1
                 /\ vnodes[heap[h].vn]
            ELSE TotalRefs(h) = 0
       /\ \A v \in Vnode :
            vnodes[v] <=> Cardinality({h \in Live : heap[h].vn = v}) = 1
       /\ (\A p \in Proc : ~files[p].valid /\ ~thread[p].copy.valid) =>
            /\ heap = [h \in Handle |-> Free]
            /\ vnodes = [v \in Vnode |-> FALSE]
       /\ \A p \in Proc :
            files[p].valid =>
              LET s == filetable_destroy(State, p)
              IN  /\ s.fault = "none"
                  /\ s.files = [files EXCEPT ![p] = NoFiles]
                  /\ \A h \in Handle :
                       LET k == SlotCount(Slots(p), h)
                       IN  IF heap[h].st = "live" /\ heap[h].refs = k
                           THEN /\ s.heap[h] = Free
                                /\ ~s.vnodes[heap[h].vn]
                           ELSE s.heap[h] = [heap[h] EXCEPT !.refs = @ - k]

\* C17 witness: every process has destroyed its table, one of them after a
\* third call, and nothing is left.
C17_Witness ==
  /\ Quiescent
  /\ ncalls = 3
  /\ \A p \in Proc :
       /\ thread[p].op = "filetable_destroy"
       /\ ~files[p].valid
       /\ ~thread[p].copy.valid
  /\ heap = [h \in Handle |-> Free]

\* what a file_open returns that fails at f
OpenError(f) == IF f = "vfs_open" THEN EVFS ELSE ENOMEM

\* C18: if the k-th file_open of filetable_init fails, filetable_init returns
\* the error of that open; the process has its table; slots 0..k-2 hold the
\* openfiles of the opens before, those a filetable_init without failure
\* puts there, each with refs 1 and its VFS object open; all other slots are
\* empty; and nothing else exists or is open that was not before the call:
\* no later path was opened, and the failed open left nothing behind.
C18_InitPartial ==
  \A p \in Proc :
    (~files[p].valid /\ Cardinality(Unopened) >= 3) =>
      LET ok == filetable_init(State, p, FALSE, NoFails).st
      IN  \A k \in 1..3, f \in OpenFails \ {"none"} :
            LET fails == [n \in 1..3 |-> IF n = k THEN f ELSE "none"]
                r     == filetable_init(State, p, FALSE, fails)
                t     == r.st.files[p].handles
            IN  /\ r.res = OpenError(f)
                /\ r.st.fault = "none"
                /\ r.st.files[p].valid
                /\ \A q \in Proc \ {p} : r.st.files[q] = files[q]
                /\ \A fd \in Fds :
                     IF fd < k - 1
                     THEN /\ t[fd] = ok.files[p].handles[fd]
                          /\ r.st.heap[t[fd]] = ok.heap[t[fd]]
                          /\ r.st.heap[t[fd]].refs = 1
                          /\ r.st.vnodes[r.st.heap[t[fd]].vn]
                     ELSE t[fd] = NULL
                /\ \A h \in Handle :
                     (\A fd \in Fds : t[fd] # h) => r.st.heap[h] = heap[h]
                /\ Cardinality({v \in Vnode : r.st.vnodes[v]}) =
                     Cardinality({v \in Vnode : vnodes[v]}) + (k - 1)

\* C18 witness: a filetable_init has returned the error of its third open;
\* the table has stdin and stdout, each with refs 1, and nothing else.
C18_Witness ==
  /\ last.op = "filetable_init"
  /\ last.res = EVFS
  /\ \E p \in Proc :
       /\ files[p].valid
       /\ \A fd \in Fds : Slots(p)[fd] # NULL <=> fd \in {0, 1}
       /\ heap[Slots(p)[0]].refs = 1
       /\ heap[Slots(p)[1]].refs = 1
       /\ Cardinality(Live) = 2

\* slot fd of process p is one its thread has released and not yet emptied:
\* the slot of a file_close between file_doclose and the write of NULL, or a
\* slot the loop of filetable_destroy has passed
Released(p, fd) ==
  \/ /\ thread[p].op \in {"file_close", "filetable_dup2file"}
     /\ thread[p].pc = "fc_clear"
     /\ thread[p].fd = fd
  \/ /\ thread[p].op = "filetable_destroy"
     /\ thread[p].pc # "idle"
     /\ fd < thread[p].fd

\* the thread of process p is in the last close of an openfile, between the
\* vfs_close and the kfree
Destroying(p) == thread[p].pc \in {"dc_unlock_last", "dc_free"}

C20_Dup2OntoAlias ==
  \A p \in Proc, a \in Fds, b \in Fds :
    (/\ files[p].valid
     /\ a # b
     /\ Slots(p)[a] # NULL
     /\ Slots(p)[b] = Slots(p)[a]) =>
      LET file == Slots(p)[a]
          c    == file_close(State, p, b)
          r    == filetable_dup2file(State, p, a, b)
      IN  /\ heap[file].refs >= 2
          /\ c.res = SUCCESS
          /\ c.st.heap = [heap EXCEPT ![file].refs = @ - 1]
          /\ c.st.vnodes = vnodes
          /\ r.res = SUCCESS
          /\ r.st.files[p].handles[a] = file
          /\ r.st.files[p].handles[b] = file
          /\ r.st.heap[file].refs = heap[file].refs
          /\ r.st = State

\* C20 witness: a filetable_dup2file has returned 0 in a process of which
\* two slots hold its openfile, whose refs is 2, and it was the third call
\* after boot: the table was made, the openfile put in the second slot, and
\* the slots duplicated onto each other.
C20_Witness ==
  /\ last.op = "filetable_dup2file"
  /\ last.res = SUCCESS
  /\ ncalls = 3
  /\ heap[last.file].refs = 2
  /\ \E p \in Proc :
       /\ SlotCount(Slots(p), last.file) = 2
       /\ \A q \in Proc \ {p} : ~files[q].valid
       /\ Cardinality(Live) = 1

====
